---- MODULE Spec2Model ----
(***************************************************************************)
(* Model of InventoryService (src/src/modules/inventory/inventory.service.ts) *)
(* over a transactional document store (MongoDB sessions), a key/value     *)
(* cache, an event emitter, a job queue and in-process timers.             *)
(*                                                                         *)
(* Every await of the service is a step boundary: the store, the cache and *)
(* the queue serve one request per step, the JavaScript between two awaits *)
(* runs with the step that resumes it.  Timestamps other than expiresAt    *)
(* (lastUpdated, history.timestamp) are not modelled.                      *)
(***************************************************************************)
EXTENDS Integers, Sequences, FiniteSets, TLC

\* ---------------------------------------------------------------- bounds
MaxRes == 1         \* reservations created in one behaviour
MaxQuantity == 2    \* largest quantity of an item before the first call
MaxTime == 1        \* clock ticks in one behaviour
MaxFaults == 1      \* store / cache / emitter / queue failures in one behaviour

\* ------------------------------------------------------- program constants
DefaultLowStockThreshold == 10
DefaultQuantity == 0
DefaultReserved == 0

None == "undefined"
Undefined == <<>>         \* an absent value where a number may stand
Value(v) == <<v>>
RefId(kind, n) == <<kind, n>>
Products == {"P1"}
Warehouses == {"W1", "W2"}
\* the calls of the model change the stock of W1; W2 holds a second record
\* of the product for the aggregate of getStockLevel
UpdateWarehouses == {"W1"}
StockKeys == Products \X Warehouses
\* two clients, each with one call, which may run concurrently
Callers == {1, 2}
ResIds == 1..MaxRes
Threads == 1..(Cardinality(Callers) + MaxRes)
TimerThread(id) == Cardinality(Callers) + id
Operations == {"ADD", "SUBTRACT", "RESERVE", "RELEASE"}
\* the quantities the clients ask for
Amounts == {1, 2}
\* the operation and quantity of an UpdateStockDto; AUDIT is not an operation
UpdateInputs == (Operations \X Amounts) \cup {<<"AUDIT", 1>>}
TTLs == {1}

VARIABLES
    store,          \* committed inventory items, by <<productId, warehouseId>>
    stockUpdates,   \* committed stock update records
    reservations,   \* stock reservations, by id (position)
    cache,          \* cache manager entries, by cache key
    lowStockEvents, \* 'stock.low' events emitted
    stockQueue,     \* 'process-stock-update' jobs added
    timers,         \* pending setTimeout callbacks
    th,             \* per thread: the call it runs, its locals, its position
    now,            \* the clock, in seconds
    calls,          \* API calls started
    faults          \* injected failures so far

vars == <<store, stockUpdates, reservations, cache, lowStockEvents, stockQueue,
          timers, th, now, calls, faults>>

\* ------------------------------------------------------------- the schema
NoItem == [exists |-> FALSE, quantity |-> DefaultQuantity, reserved |-> DefaultReserved,
           lowStockThreshold |-> DefaultLowStockThreshold, isActive |-> TRUE,
           history |-> <<>>]

InventoryItem(q, r, threshold, active, hist) ==
    [exists |-> TRUE, quantity |-> q, reserved |-> r,
     lowStockThreshold |-> threshold, isActive |-> active, history |-> hist]

HistoryEntry(operation, quantity, reason, referenceId) ==
    [operation |-> operation, quantity |-> quantity, reason |-> reason,
     referenceId |-> referenceId]

\* ------------------------------------------------------------- the cache
CacheKey(productId, warehouseId) ==
    <<"stock", productId, IF warehouseId = None THEN "all" ELSE warehouseId>>

CacheKeys == {CacheKey(p, w) : p \in Products, w \in Warehouses \cup {None}}

ClearStockCacheKeys(productId, warehouseId) ==
    {CacheKey(productId, None)}
      \cup (IF warehouseId = None THEN {} ELSE {CacheKey(productId, warehouseId)})

\* a hit tested by truthiness, which takes a cached 0 for a miss
CachedHitTruthy(cachedStock) == cachedStock # Undefined /\ cachedStock[1] # 0

\* line 41: the cached value is neither undefined nor null
CachedHit(cachedStock) == cachedStock # Undefined

\* --------------------------------------------------- the aggregate pipeline
\* a $match that leaves out isActive
MatchingAnyItem(st, productId, warehouseId) ==
    {k \in StockKeys : /\ st[k].exists
                       /\ k[1] = productId
                       /\ (warehouseId # None => k[2] = warehouseId)}

\* lines 45-49 and 53: the $match stage
Matching(st, productId, warehouseId) ==
    {k \in StockKeys : /\ st[k].exists
                       /\ k[1] = productId
                       /\ st[k].isActive
                       /\ (warehouseId # None => k[2] = warehouseId)}

RECURSIVE SumQuantity(_, _), SumReserved(_, _)
SumQuantity(st, S) ==
    IF S = {} THEN 0
    ELSE LET k == CHOOSE x \in S : TRUE IN st[k].quantity + SumQuantity(st, S \ {k})
SumReserved(st, S) ==
    IF S = {} THEN 0
    ELSE LET k == CHOOSE x \in S : TRUE IN st[k].reserved + SumReserved(st, S \ {k})

AvailableStock(st, productId, warehouseId) ==
    LET S == Matching(st, productId, warehouseId) IN
    IF S = {} THEN 0 ELSE SumQuantity(st, S) - SumReserved(st, S)

\* ------------------------------------------------------------ the threads
IdleThread ==
    [pc |-> "idle", op |-> "none", productId |-> None, warehouseId |-> None,
     quantity |-> 0, operation |-> None, reason |-> None, referenceId |-> Undefined,
     ttlSeconds |-> 0, availableStock |-> 0, resId |-> 0,
     inTxn |-> FALSE, doc |-> NoItem, newQuantity |-> 0, newReserved |-> 0,
     storeReads |-> 0, err |-> None, ret |-> Undefined]

\* a call that has returned or thrown keeps its arguments and its outcome
Finished(r) ==
    [r EXCEPT !.pc = "done", !.inTxn = FALSE, !.doc = NoItem, !.newQuantity = 0,
              !.newReserved = 0, !.availableStock = 0]

TxnKey(t) == <<th[t].productId, th[t].warehouseId>>

\* the document of key k is write-locked by an open transaction
Locked(k) == \E t \in Threads : th[t].inTxn /\ TxnKey(t) = k

CanFail == faults < MaxFaults


\* -------------------------------------------------------------- API calls
\* main.ts 113-120: GET stock/:productId[?warehouseId=]
CallGetStockLevel(t, productId, warehouseId) ==
    /\ t \in Callers /\ t = calls + 1
    /\ th' = [th EXCEPT ![t] = [IdleThread EXCEPT !.pc = "G_get", !.op = "getStockLevel",
                                   !.productId = productId, !.warehouseId = warehouseId]]
    /\ calls' = calls + 1
    /\ UNCHANGED <<store, stockUpdates, reservations, cache, lowStockEvents,
                   stockQueue, timers, now, faults>>

\* line 83: the referenceId of an UpdateStockDto is the client's: that of its
\* order, or the id reserveStock returned to it, sent with a RELEASE of the
\* reserved quantity to give the hold back
ClientReferences(operation, quantity) ==
    IF operation # "RELEASE" \/ reservations = <<>> THEN {RefId("order", 1)}
    ELSE {RefId("order", 1)}
           \cup {RefId("reservation", id) : id \in
                   {i \in 1..Len(reservations) :
                       /\ reservations[i].quantity = quantity
                       /\ \E c \in Callers : /\ th[c].op = "reserveStock"
                                             /\ th[c].pc = "done"
                                             /\ th[c].ret = Value(i)}}

\* main.ts 139-143: POST stock
CallUpdateStock(t, productId, warehouseId, operation, quantity, referenceId) ==
    /\ t \in Callers /\ t = calls + 1
    /\ th' = [th EXCEPT ![t] = [IdleThread EXCEPT !.pc = "U_find", !.op = "updateStock",
                                   !.productId = productId, !.warehouseId = warehouseId,
                                   !.operation = operation, !.quantity = quantity,
                                   !.reason = "api", !.referenceId = referenceId]]
    /\ calls' = calls + 1
    /\ UNCHANGED <<store, stockUpdates, reservations, cache, lowStockEvents,
                   stockQueue, timers, now, faults>>

ReservationsStarted ==
    Len(reservations)
      + Cardinality({t \in Threads : th[t].op = "reserveStock"
                                      /\ th[t].pc \in {"G_get", "G_agg", "G_set", "R_save"}})

\* main.ts 155-160: POST reserve
CallReserveStock(t, productId, warehouseId, quantity, ttlSeconds) ==
    /\ t \in Callers /\ t = calls + 1
    /\ ReservationsStarted < MaxRes
    /\ th' = [th EXCEPT ![t] = [IdleThread EXCEPT !.pc = "G_get", !.op = "reserveStock",
                                   !.productId = productId, !.warehouseId = warehouseId,
                                   !.quantity = quantity, !.ttlSeconds = ttlSeconds]]
    /\ calls' = calls + 1
    /\ UNCHANGED <<store, stockUpdates, reservations, cache, lowStockEvents,
                   stockQueue, timers, now, faults>>

\* ------------------------------------------------------------ getStockLevel
\* a reserveStock that leaves the stock check to updateStock
GetReturnedUnchecked(r, v) ==
    IF r.op = "reserveStock"
    THEN [r EXCEPT !.pc = "R_save", !.availableStock = v]
    ELSE Finished([r EXCEPT !.ret = Value(v)])

\* what the caller of getStockLevel does with the value it returns
GetReturned(r, v) ==
    IF r.op = "reserveStock"
    THEN IF v < r.quantity
         THEN Finished([r EXCEPT !.err = "Insufficient stock"])
         ELSE [r EXCEPT !.pc = "R_save", !.availableStock = v]
    ELSE Finished([r EXCEPT !.ret = Value(v)])

\* getStockLevel rethrows, reserveStock does not catch
GetThrew(r, e) == Finished([r EXCEPT !.err = e])

\* lines 36-43: cache lookup
CacheGet(t) ==
    /\ th[t].pc = "G_get"
    /\ LET key == CacheKey(th[t].productId, th[t].warehouseId)
           cachedStock == cache[key]
       IN \/ /\ CachedHit(cachedStock)
             /\ th' = [th EXCEPT ![t] = GetReturned(@, cachedStock[1])]
             /\ UNCHANGED faults
          \/ /\ ~CachedHit(cachedStock)
             /\ th' = [th EXCEPT ![t].pc = "G_agg"]
             /\ UNCHANGED faults
          \/ /\ CanFail
             /\ th' = [th EXCEPT ![t] = GetThrew(@, "CacheError")]
             /\ faults' = faults + 1
    /\ UNCHANGED <<store, stockUpdates, reservations, cache, lowStockEvents,
                   stockQueue, timers, now, calls>>

\* lines 45-65: aggregate over the committed inventory items
Aggregate(t) ==
    /\ th[t].pc = "G_agg"
    /\ \/ /\ th' = [th EXCEPT ![t].pc = "G_set",
                              ![t].storeReads = @ + 1,
                              ![t].availableStock =
                                  AvailableStock(store, th[t].productId, th[t].warehouseId)]
          /\ UNCHANGED faults
       \/ /\ CanFail
          /\ th' = [th EXCEPT ![t] = GetThrew(@, "StoreError")]
          /\ faults' = faults + 1
    /\ UNCHANGED <<store, stockUpdates, reservations, cache, lowStockEvents,
                   stockQueue, timers, now, calls>>

\* lines 67-70: cache the result and return it
CacheSet(t) ==
    /\ th[t].pc = "G_set"
    /\ \/ /\ cache' = [cache EXCEPT ![CacheKey(th[t].productId, th[t].warehouseId)] =
                                        Value(th[t].availableStock)]
          /\ th' = [th EXCEPT ![t] = GetReturned(@, th[t].availableStock)]
          /\ UNCHANGED faults
       \/ /\ CanFail
          /\ th' = [th EXCEPT ![t] = GetThrew(@, "CacheError")]
          /\ faults' = faults + 1
          /\ UNCHANGED cache
    /\ UNCHANGED <<store, stockUpdates, reservations, lowStockEvents,
                   stockQueue, timers, now, calls>>

\* line 68: the entry's time-to-live (CACHE_TTL) runs out
CacheExpire(key) ==
    /\ cache[key] # Undefined
    /\ cache' = [cache EXCEPT ![key] = Undefined]
    /\ UNCHANGED <<store, stockUpdates, reservations, lowStockEvents,
                   stockQueue, timers, th, now, calls, faults>>

\* -------------------------------------------------------------- updateStock
\* a stock check that forgets the reserved units
InsufficientIgnoringReserved(quantity, reserved, amount) == quantity < amount

\* lines 101 and 107: not enough available stock
Insufficient(quantity, reserved, amount) == quantity - reserved < amount

\* a release check that is off by one
ExceedsReservedOffByOne(reserved, amount) == reserved <= amount

\* line 113: more than is reserved
ExceedsReserved(reserved, amount) == reserved < amount

\* a RELEASE that drops every reserved unit
ApplyOperationReleaseAll(quantity, reserved, operation, amount) ==
    CASE operation = "ADD" ->
           [err |-> None, newQuantity |-> quantity + amount, newReserved |-> reserved]
      [] operation = "SUBTRACT" ->
           IF Insufficient(quantity, reserved, amount)
           THEN [err |-> "Insufficient stock available",
                 newQuantity |-> quantity, newReserved |-> reserved]
           ELSE [err |-> None, newQuantity |-> quantity - amount, newReserved |-> reserved]
      [] operation = "RESERVE" ->
           IF Insufficient(quantity, reserved, amount)
           THEN [err |-> "Insufficient stock to reserve",
                 newQuantity |-> quantity, newReserved |-> reserved]
           ELSE [err |-> None, newQuantity |-> quantity, newReserved |-> reserved + amount]
      [] operation = "RELEASE" ->
           IF ExceedsReserved(reserved, amount)
           THEN [err |-> "Cannot release more than reserved",
                 newQuantity |-> quantity, newReserved |-> reserved]
           ELSE [err |-> None, newQuantity |-> quantity, newReserved |-> 0]
      [] OTHER ->
           [err |-> "Invalid operation", newQuantity |-> quantity, newReserved |-> reserved]

\* lines 92-120: the new counters, or the error thrown
ApplyOperation(quantity, reserved, operation, amount) ==
    CASE operation = "ADD" ->
           [err |-> None, newQuantity |-> quantity + amount, newReserved |-> reserved]
      [] operation = "SUBTRACT" ->
           IF Insufficient(quantity, reserved, amount)
           THEN [err |-> "Insufficient stock available",
                 newQuantity |-> quantity, newReserved |-> reserved]
           ELSE [err |-> None, newQuantity |-> quantity - amount, newReserved |-> reserved]
      [] operation = "RESERVE" ->
           IF Insufficient(quantity, reserved, amount)
           THEN [err |-> "Insufficient stock to reserve",
                 newQuantity |-> quantity, newReserved |-> reserved]
           ELSE [err |-> None, newQuantity |-> quantity, newReserved |-> reserved + amount]
      [] operation = "RELEASE" ->
           IF ExceedsReserved(reserved, amount)
           THEN [err |-> "Cannot release more than reserved",
                 newQuantity |-> quantity, newReserved |-> reserved]
           ELSE [err |-> None, newQuantity |-> quantity, newReserved |-> reserved - amount]
      [] OTHER ->
           [err |-> "Invalid operation", newQuantity |-> quantity, newReserved |-> reserved]

\* what the caller of updateStock does when it returns the item
UpdateReturned(r) ==
    CASE r.op = "reserveStock" -> [r EXCEPT !.pc = "R_arm", !.inTxn = FALSE]
      [] r.op = "checkReservationExpiry" -> Finished(r)
      [] OTHER -> Finished([r EXCEPT !.ret = Value(r.doc)])

\* updateStock rethrows; neither reserveStock nor checkReservationExpiry catches
UpdateThrew(r) == Finished(r)

\* lines 190-193: the catch block is entered with the error
Caught(r, e) == [r EXCEPT !.pc = "U_abort", !.err = e]

\* lines 78-120: open the transaction, find or create the item under its
\* write lock, compute the new counters
FindOrCreate(t) ==
    /\ th[t].pc = "U_find"
    /\ LET k == TxnKey(t)
           item == IF store[k].exists THEN store[k] ELSE [NoItem EXCEPT !.exists = TRUE]
           res == ApplyOperation(item.quantity, item.reserved,
                                 th[t].operation, th[t].quantity)
       IN \/ /\ Locked(k)
             /\ th' = [th EXCEPT ![t] = Caught(@, "WriteConflict")]
             /\ UNCHANGED faults
          \/ /\ ~Locked(k)
             /\ th' = [th EXCEPT ![t] =
                   IF res.err # None
                   THEN Caught([@ EXCEPT !.inTxn = TRUE, !.doc = item], res.err)
                   ELSE [@ EXCEPT !.pc = "U_update", !.inTxn = TRUE, !.doc = item,
                                  !.newQuantity = res.newQuantity,
                                  !.newReserved = res.newReserved]]
             /\ UNCHANGED faults
          \/ /\ CanFail
             /\ th' = [th EXCEPT ![t] = Caught(@, "StoreError")]
             /\ faults' = faults + 1
    /\ UNCHANGED <<store, stockUpdates, reservations, cache, lowStockEvents,
                   stockQueue, timers, now, calls>>

\* an update that writes the counters and leaves the history as it is
UpdatedItemWithoutEntry(r) ==
    [r.doc EXCEPT !.quantity = r.newQuantity, !.reserved = r.newReserved]

\* an update that skips an operation whose referenceId is in the history
UpdatedItemOncePerReference(r) ==
    IF \E i \in 1..Len(r.doc.history) : r.doc.history[i].referenceId = r.referenceId
    THEN r.doc
    ELSE [r.doc EXCEPT !.quantity = r.newQuantity,
                       !.reserved = r.newReserved,
                       !.history = Append(@, HistoryEntry(r.operation, r.quantity,
                                                          r.reason, r.referenceId))]

\* lines 122-140: write the counters and push the history entry, in the transaction
UpdatedItem(r) ==
    [r.doc EXCEPT !.quantity = r.newQuantity,
                  !.reserved = r.newReserved,
                  !.history = Append(@, HistoryEntry(r.operation, r.quantity,
                                                     r.reason, r.referenceId))]

\* lines 142-153: the stock update record
StockUpdateRecord(r) ==
    [productId |-> r.productId, warehouseId |-> r.warehouseId,
     operation |-> r.operation, quantity |-> r.quantity,
     newQuantity |-> r.newQuantity, newReserved |-> r.newReserved,
     reason |-> r.reason, referenceId |-> r.referenceId]

\* lines 122-155: update the item and save the stock update record, both in
\* the transaction (nothing of it is visible outside before the commit).
\* Line 143 builds the record with the constructor of the model object; the
\* step is taken as a write of the transaction that succeeds or fails.
UpdateItem(t) ==
    /\ th[t].pc = "U_update"
    /\ \/ /\ th' = [th EXCEPT ![t].pc = "U_clear", ![t].doc = UpdatedItem(th[t])]
          /\ UNCHANGED faults
       \/ /\ CanFail
          /\ th' = [th EXCEPT ![t] = Caught(@, "StoreError")]
          /\ faults' = faults + 1
    /\ UNCHANGED <<store, stockUpdates, reservations, cache, lowStockEvents,
                   stockQueue, timers, now, calls>>

\* lines 160-162: the low stock condition
IsLowStock(availableStock, threshold) == availableStock <= threshold

LowStockEvent(r) ==
    [productId |-> r.productId, warehouseId |-> r.warehouseId,
     availableStock |-> r.newQuantity - r.newReserved,
     threshold |-> r.doc.lowStockThreshold]

\* lines 160-172: the events emitted after the cache is cleared
Emitted(r) ==
    IF IsLowStock(r.newQuantity - r.newReserved, r.doc.lowStockThreshold)
    THEN <<LowStockEvent(r)>> ELSE <<>>

\* lines 157-172 and 237-244: delete the product's cache entries, then emit
\* 'stock.low' to the listeners when the available stock is low
ClearStockCache(t) ==
    /\ th[t].pc = "U_clear"
    /\ LET keys == ClearStockCacheKeys(th[t].productId, th[t].warehouseId)
           cleared == [key \in CacheKeys |-> IF key \in keys THEN Undefined ELSE cache[key]]
       IN \/ /\ cache' = cleared
             /\ lowStockEvents' = lowStockEvents \o Emitted(th[t])
             /\ th' = [th EXCEPT ![t].pc = "U_enqueue"]
             /\ UNCHANGED faults
          \/ /\ CanFail
             /\ \E deleted \in (SUBSET keys) \ {keys} :
                   cache' = [key \in CacheKeys |->
                                IF key \in deleted THEN Undefined ELSE cache[key]]
             /\ th' = [th EXCEPT ![t] = Caught(@, "CacheError")]
             /\ faults' = faults + 1
             /\ UNCHANGED lowStockEvents
          \/ /\ CanFail /\ Emitted(th[t]) # <<>>
             /\ cache' = cleared
             /\ lowStockEvents' = lowStockEvents \o Emitted(th[t])
             /\ th' = [th EXCEPT ![t] = Caught(@, "ListenerError")]
             /\ faults' = faults + 1
    /\ UNCHANGED <<store, stockUpdates, reservations, stockQueue, timers, now, calls>>

\* lines 174-181: add the job to the queue
StockUpdateJob(r) ==
    [productId |-> r.productId, warehouseId |-> r.warehouseId,
     operation |-> r.operation, quantity |-> r.quantity]

Enqueue(t) ==
    /\ th[t].pc = "U_enqueue"
    /\ \/ /\ stockQueue' = Append(stockQueue, StockUpdateJob(th[t]))
          /\ th' = [th EXCEPT ![t].pc = "U_commit"]
          /\ UNCHANGED faults
       \/ /\ CanFail
          /\ th' = [th EXCEPT ![t] = Caught(@, "QueueError")]
          /\ faults' = faults + 1
          /\ UNCHANGED stockQueue
    /\ UNCHANGED <<store, stockUpdates, reservations, cache, lowStockEvents,
                   timers, now, calls>>

\* line 183: what the commit makes of the committed items
Committed(st, k, doc) == [st EXCEPT ![k] = doc]

\* an abort that leaves the transaction's writes in the collection
AbortedKeepsWrites(st, k, doc) == [st EXCEPT ![k] = doc]

\* lines 190-191: what the abort makes of the committed items
Aborted(st, k, doc) == st

\* lines 183-189 and 194-196: commit, end the session, return the item
Commit(t) ==
    /\ th[t].pc = "U_commit"
    /\ \/ /\ store' = Committed(store, TxnKey(t), th[t].doc)
          /\ stockUpdates' = Append(stockUpdates, StockUpdateRecord(th[t]))
          /\ th' = [th EXCEPT ![t] = UpdateReturned(@)]
          /\ UNCHANGED faults
       \/ /\ CanFail
          /\ th' = [th EXCEPT ![t] = Caught(@, "StoreError")]
          /\ faults' = faults + 1
          /\ UNCHANGED <<store, stockUpdates>>
    /\ UNCHANGED <<reservations, cache, lowStockEvents, stockQueue, timers, now, calls>>

\* lines 190-196: abort the transaction, end the session, rethrow
Abort(t) ==
    /\ th[t].pc = "U_abort"
    /\ store' = Aborted(store, TxnKey(t), th[t].doc)
    /\ th' = [th EXCEPT ![t] = UpdateThrew(@)]
    /\ UNCHANGED <<stockUpdates, reservations, cache, lowStockEvents, stockQueue,
                   timers, now, calls, faults>>


\* ------------------------------------------------------------- reserveStock
\* a reservation that is saved before it is confirmed
StockReservationPending(productId, warehouseId, quantity, expiresAt) ==
    [productId |-> productId, warehouseId |-> warehouseId, quantity |-> quantity,
     expiresAt |-> expiresAt, status |-> "PENDING"]

\* lines 209-215: the reservation document
StockReservation(productId, warehouseId, quantity, expiresAt) ==
    [productId |-> productId, warehouseId |-> warehouseId, quantity |-> quantity,
     expiresAt |-> expiresAt, status |-> "ACTIVE"]

\* lines 208-227: save the reservation, then call updateStock with RESERVE
SaveReservation(t) ==
    /\ th[t].pc = "R_save"
    /\ \/ /\ reservations' =
                Append(reservations,
                       StockReservation(th[t].productId, th[t].warehouseId,
                                        th[t].quantity, now + th[t].ttlSeconds))
          /\ th' = [th EXCEPT ![t].pc = "U_find",
                              ![t].resId = Len(reservations) + 1,
                              ![t].operation = "RESERVE",
                              ![t].reason = "Order reservation",
                              ![t].referenceId = RefId("reservation", Len(reservations) + 1)]
          /\ UNCHANGED faults
       \/ /\ CanFail
          /\ th' = [th EXCEPT ![t] = Finished([@ EXCEPT !.err = "StoreError"])]
          /\ faults' = faults + 1
          /\ UNCHANGED reservations
    /\ UNCHANGED <<store, stockUpdates, cache, lowStockEvents, stockQueue,
                   timers, now, calls>>

\* a timeout whose delay is the ttl taken as milliseconds
ArmTimerMilliseconds(t) ==
    /\ th[t].pc = "R_arm"
    /\ timers' = timers \cup {[id |-> th[t].resId, due |-> now]}
    /\ th' = [th EXCEPT ![t] = Finished([@ EXCEPT !.ret = Value(th[t].resId)])]
    /\ UNCHANGED <<store, stockUpdates, reservations, cache, lowStockEvents,
                   stockQueue, now, calls, faults>>

\* lines 229-234: schedule the expiration check and return the id
ArmTimer(t) ==
    /\ th[t].pc = "R_arm"
    /\ timers' = timers \cup {[id |-> th[t].resId, due |-> now + th[t].ttlSeconds]}
    /\ th' = [th EXCEPT ![t] = Finished([@ EXCEPT !.ret = Value(th[t].resId)])]
    /\ UNCHANGED <<store, stockUpdates, reservations, cache, lowStockEvents,
                   stockQueue, now, calls, faults>>

\* --------------------------------------------------- checkReservationExpiry
\* lines 230-232: the timeout callback runs
TimerFire(tm) ==
    /\ tm \in timers
    /\ now >= tm.due
    /\ th[TimerThread(tm.id)].pc = "idle"
    /\ timers' = timers \ {tm}
    /\ th' = [th EXCEPT ![TimerThread(tm.id)] =
                 [IdleThread EXCEPT !.pc = "E_find", !.op = "checkReservationExpiry",
                                    !.resId = tm.id]]
    /\ UNCHANGED <<store, stockUpdates, reservations, cache, lowStockEvents,
                   stockQueue, now, calls, faults>>

\* line 249: the reservation is found and still active
StillActive(id) == id \in 1..Len(reservations) /\ reservations[id].status = "ACTIVE"

\* lines 247-250: read the reservation
FindReservation(t) ==
    /\ th[t].pc = "E_find"
    /\ \/ /\ StillActive(th[t].resId)
          /\ th' = [th EXCEPT ![t].pc = "E_save"]
          /\ UNCHANGED faults
       \/ /\ ~StillActive(th[t].resId)
          /\ th' = [th EXCEPT ![t] = Finished(@)]
          /\ UNCHANGED faults
       \/ /\ CanFail
          /\ th' = [th EXCEPT ![t] = Finished([@ EXCEPT !.err = "StoreError"])]
          /\ faults' = faults + 1
    /\ UNCHANGED <<store, stockUpdates, reservations, cache, lowStockEvents,
                   stockQueue, timers, now, calls>>

\* an expiry that marks the reservation with a status of its own
ExpireReservationReleased(t) ==
    /\ th[t].pc = "E_save"
    /\ LET id == th[t].resId
           reservation == reservations[id]
       IN /\ reservations' = [reservations EXCEPT ![id].status = "RELEASED"]
          /\ th' = [th EXCEPT ![t].pc = "U_find",
                              ![t].productId = reservation.productId,
                              ![t].warehouseId = reservation.warehouseId,
                              ![t].quantity = reservation.quantity,
                              ![t].operation = "RELEASE",
                              ![t].reason = "Reservation expired",
                              ![t].referenceId = RefId("reservation", id)]
    /\ UNCHANGED <<store, stockUpdates, cache, lowStockEvents, stockQueue,
                   timers, now, calls, faults>>

\* lines 250-261: save the status EXPIRED, then call updateStock with RELEASE
ExpireReservation(t) ==
    /\ th[t].pc = "E_save"
    /\ LET id == th[t].resId
           reservation == reservations[id]
       IN \/ /\ reservations' = [reservations EXCEPT ![id].status = "EXPIRED"]
             /\ th' = [th EXCEPT ![t].pc = "U_find",
                                 ![t].productId = reservation.productId,
                                 ![t].warehouseId = reservation.warehouseId,
                                 ![t].quantity = reservation.quantity,
                                 ![t].operation = "RELEASE",
                                 ![t].reason = "Reservation expired",
                                 ![t].referenceId = RefId("reservation", id)]
             /\ UNCHANGED faults
          \/ /\ CanFail
             /\ th' = [th EXCEPT ![t] = Finished([@ EXCEPT !.err = "StoreError"])]
             /\ faults' = faults + 1
             /\ UNCHANGED reservations
    /\ UNCHANGED <<store, stockUpdates, cache, lowStockEvents, stockQueue,
                   timers, now, calls>>

\* ------------------------------------------------------------------- time
\* The clock is read first when a reservation is saved (line 213): time is
\* counted from the first reservation on.
Tick ==
    /\ now < MaxTime
    /\ reservations # <<>>
    /\ now' = now + 1
    /\ UNCHANGED <<store, stockUpdates, reservations, cache, lowStockEvents,
                   stockQueue, timers, th, calls, faults>>

\* ---------------------------------------------------------- initial states
\* an item as earlier updateStock calls left it: its history gives its counters
InitialHistory(q, r) ==
    (IF q > 0 THEN <<HistoryEntry("ADD", q, "api", RefId("order", 0))>> ELSE <<>>)
      \o (IF r > 0 THEN <<HistoryEntry("RESERVE", r, "api", RefId("order", 0))>> ELSE <<>>)

\* W1: no item yet, or an item with a configured threshold of 1, or a
\* deactivated item; W2: an active item with one unit in stock
InitialStores ==
    {[k \in StockKeys |->
         IF k[2] = "W1" THEN w1
         ELSE InventoryItem(1, 0, DefaultLowStockThreshold, TRUE, InitialHistory(1, 0))] :
        w1 \in {NoItem}
                \cup {InventoryItem(1, 0, 1, FALSE, InitialHistory(1, 0))}
                \cup {InventoryItem(q, r, 1, TRUE, InitialHistory(q, r)) :
                         q \in 0..MaxQuantity, r \in 0..MaxQuantity}}

Init ==
    /\ store \in {st \in InitialStores : \A k \in StockKeys : st[k].reserved <= st[k].quantity}
    /\ stockUpdates = <<>>
    /\ reservations = <<>>
    /\ cache = [key \in CacheKeys |-> Undefined]
    /\ lowStockEvents = <<>>
    /\ stockQueue = <<>>
    /\ timers = {}
    /\ th = [t \in Threads |-> IdleThread]
    /\ now = 0
    /\ calls = 0
    /\ faults = 0

Next ==
    \/ \E t \in Callers, p \in Products, w \in Warehouses \cup {None} :
          CallGetStockLevel(t, p, w)
    \/ \E t \in Callers, p \in Products, w \in UpdateWarehouses, in \in UpdateInputs :
          \E ref \in ClientReferences(in[1], in[2]) :
              CallUpdateStock(t, p, w, in[1], in[2], ref)
    \/ \E t \in Callers, p \in Products, w \in UpdateWarehouses,
          a \in Amounts, ttl \in TTLs :
          CallReserveStock(t, p, w, a, ttl)
    \/ \E t \in Threads : CacheGet(t)
    \/ \E t \in Threads : Aggregate(t)
    \/ \E t \in Threads : CacheSet(t)
    \/ \E key \in CacheKeys : CacheExpire(key)
    \/ \E t \in Threads : FindOrCreate(t)
    \/ \E t \in Threads : UpdateItem(t)
    \/ \E t \in Threads : ClearStockCache(t)
    \/ \E t \in Threads : Enqueue(t)
    \/ \E t \in Threads : Commit(t)
    \/ \E t \in Threads : Abort(t)
    \/ \E t \in Threads : SaveReservation(t)
    \/ \E t \in Threads : ArmTimer(t)
    \/ \E tm \in timers : TimerFire(tm)
    \/ \E t \in Threads : FindReservation(t)
    \/ \E t \in Threads : ExpireReservation(t)
    \/ Tick

Spec == Init /\ [][Next]_vars

\* ---------------------------------------------------------------- restart
\* main.ts 10-63 and lines 22-30: the process stops and is started again.
\* The calls in flight and the pending timeouts die with it, the store aborts
\* the open transactions; the store, the reservations and the cache stay.
\* Neither bootstrap nor the service's constructor looks at the reservations.
Restart ==
    /\ \/ timers # {}
       \/ \E t \in Threads : th[t].pc \notin {"idle", "done"}
    /\ timers' = {}
    /\ th' = [t \in Threads |->
                IF th[t].pc \in {"idle", "done"} THEN th[t]
                ELSE Finished([th[t] EXCEPT !.err = "ProcessExit"])]
    /\ UNCHANGED <<store, stockUpdates, reservations, cache, lowStockEvents,
                   stockQueue, now, calls, faults>>

NextRestart == Next \/ Restart

SpecRestart == Init /\ [][NextRestart]_vars


\* ================================================================== claims
Done(t) == th[t].pc = "done"
Returned(t) == Done(t) /\ th[t].err = None
Threw(t) == Done(t) /\ th[t].err # None
Available(item) == item.quantity - item.reserved
HasEntry(item, operation, quantity, referenceId) ==
    \E i \in 1..Len(item.history) :
        /\ item.history[i].operation = operation
        /\ item.history[i].quantity = quantity
        /\ item.history[i].referenceId = referenceId

\* C1: in every reachable state every committed inventory item has
\* 0 <= reserved <= quantity, so that quantity - reserved is never negative.
C1_ReservedWithinQuantity ==
    \A k \in StockKeys :
        /\ 0 <= store[k].reserved
        /\ store[k].reserved <= store[k].quantity
        /\ Available(store[k]) >= 0

\* C1 witness: a reserveStock call, an updateStock call and an expiry run have
\* all finished, and an operation has been committed on the item.
C1_Witness ==
    /\ \E t \in Callers : Returned(t) /\ th[t].op = "reserveStock"
    /\ \E t \in Callers : Returned(t) /\ th[t].op = "updateStock"
    /\ \E id \in ResIds : Returned(TimerThread(id))
    /\ Len(stockUpdates) >= 3

\* C2 (as claimed): when the RESERVE calls of a behaviour, all on one item and
\* asking in total for more than is available, have all ended, every call that
\* failed failed with the insufficient stock error and asks for more than is
\* left, and reserved does not exceed quantity.
ReserveCalls == {t \in Callers : th[t].op = "updateStock" /\ th[t].operation = "RESERVE"}

RECURSIVE Requested(_)
Requested(S) ==
    IF S = {} THEN 0
    ELSE LET t == CHOOSE x \in S : TRUE IN th[t].quantity + Requested(S \ {t})

C2_ConcurrentReserves ==
    LET k == <<"P1", "W1">>
        granted == {t \in ReserveCalls : th[t].err = None}
        availableBefore == Available(store[k]) + Requested(granted)
    IN (/\ calls = Cardinality(Callers)
        /\ ReserveCalls = Callers
        /\ \A t \in Callers : Done(t)
        /\ faults = 0
        /\ Requested(ReserveCalls) > availableBefore)
       => /\ \A t \in ReserveCalls \ granted :
                /\ th[t].err = "Insufficient stock to reserve"
                /\ th[t].quantity > Available(store[k])
          /\ store[k].reserved <= store[k].quantity

\* C3: updateStock behaves as the reference operator of the four kinds: the
\* switch throws the insufficient stock error exactly when SUBTRACT or RESERVE
\* asks for more than quantity - reserved, the release error exactly when
\* RELEASE asks for more than reserved, never for ADD, and a call that commits
\* leaves quantity and reserved as the reference gives them.
RefFails(q, r, operation, a) ==
    \/ operation \in {"SUBTRACT", "RESERVE"} /\ q - r < a
    \/ operation = "RELEASE" /\ r < a

RefQuantity(q, operation, a) ==
    IF operation = "ADD" THEN q + a ELSE IF operation = "SUBTRACT" THEN q - a ELSE q

RefReserved(r, operation, a) ==
    IF operation = "RESERVE" THEN r + a ELSE IF operation = "RELEASE" THEN r - a ELSE r

BusinessErrors == {"Insufficient stock available", "Insufficient stock to reserve",
                   "Cannot release more than reserved"}

C3_Step(t) ==
    LET k == TxnKey(t)
        q == store[k].quantity
        r == store[k].reserved
        operation == th[t].operation
        a == th[t].quantity
    IN /\ (th[t].pc = "U_find" /\ th'[t].inTxn /\ operation \in Operations) =>
             /\ (th'[t].err \in BusinessErrors) <=> RefFails(q, r, operation, a)
             /\ (th'[t].pc = "U_update") <=> ~RefFails(q, r, operation, a)
             /\ th'[t].err = "Insufficient stock available" => operation = "SUBTRACT"
             /\ th'[t].err = "Insufficient stock to reserve" => operation = "RESERVE"
             /\ th'[t].err = "Cannot release more than reserved" => operation = "RELEASE"
       /\ (th[t].pc = "U_commit" /\ th'[t].pc \notin {"U_commit", "U_abort"}) =>
             /\ store'[k].quantity = RefQuantity(q, operation, a)
             /\ store'[k].reserved = RefReserved(r, operation, a)
             /\ ~RefFails(q, r, operation, a)

C3_ReferenceOperator == [][\A t \in Threads : C3_Step(t)]_vars

\* C3 witness: a SUBTRACT has been refused for want of available stock on an
\* item that holds enough quantity, and another operation has been committed.
C3_Witness ==
    /\ \E t \in Callers :
          /\ Threw(t) /\ th[t].operation = "SUBTRACT"
          /\ th[t].err = "Insufficient stock available"
          /\ store[TxnKey(t)].quantity >= th[t].quantity
    /\ \E t \in Callers : Returned(t) /\ th[t].op = "updateStock"

\* C4: the committed items change only by the commit of a call that then
\* returns normally, and then to exactly what that call wrote: a failing
\* updateStock leaves quantity, reserved and history as they were, and nothing
\* a transaction wrote is visible before its commit.
C4_Step(k) ==
    store'[k] # store[k] =>
        \E t \in Threads :
            /\ th[t].pc = "U_commit" /\ TxnKey(t) = k
            /\ th'[t].pc \in {"done", "R_arm"} /\ th'[t].err = None
            /\ store'[k] = th[t].doc

C4_FailureChangesNothing == [][\A k \in StockKeys : C4_Step(k)]_vars

\* C4 witness: an updateStock has failed after it had written the new counters
\* in its transaction, and the item is as it was.
C4_Witness ==
    \E t \in Callers :
        /\ Threw(t) /\ th[t].op = "updateStock" /\ th[t].err = "QueueError"
        /\ th[t].operation = "ADD"
        /\ store[TxnKey(t)].history = <<>>

\* C5 (as claimed): once reserveStock has thrown after it saved its
\* reservation, that reservation is no longer ACTIVE.
C5_FailedReserveRolledBack ==
    \A t \in Callers :
        (/\ Threw(t) /\ th[t].op = "reserveStock" /\ th[t].resId # 0 /\ faults = 0)
        => reservations[th[t].resId].status # "ACTIVE"

\* C6 (as claimed): an updateStock whose cache invalidation, low stock signal
\* or enqueue failed has committed its change and returned the updated item.
SideEffectErrors == {"CacheError", "ListenerError", "QueueError"}

C6_SideEffectFailureKeepsCommit ==
    \A t \in Callers :
        (Done(t) /\ th[t].op = "updateStock" /\ th[t].err \in SideEffectErrors)
        => /\ th[t].ret # Undefined
           /\ HasEntry(store[TxnKey(t)], th[t].operation, th[t].quantity,
                       th[t].referenceId)

\* C7 (as claimed): when the expiry run of a reservation has finished and the
\* reservation is EXPIRED, a RELEASE of its quantity with its id as reference
\* has been applied to its item.
C7_ExpiredMeansReleased ==
    \A id \in 1..Len(reservations) :
        (/\ Done(TimerThread(id))
         /\ reservations[id].status = "EXPIRED"
         /\ faults = 0)
        => HasEntry(store[<<reservations[id].productId, reservations[id].warehouseId>>],
                    "RELEASE", reservations[id].quantity, RefId("reservation", id))

\* C8 (as claimed): after a restart every ACTIVE reservation whose expiry was
\* armed before it has its expiry armed again or running.
ExpiryPending(id) ==
    \/ \E tm \in timers : tm.id = id
    \/ th[TimerThread(id)].pc \notin {"idle", "done"}

C8_RestartRearmsExpiry ==
    [][Restart => \A id \in 1..Len(reservations) :
                     (reservations[id].status = "ACTIVE" /\ \E tm \in timers : tm.id = id)
                     => ExpiryPending(id)']_vars

\* C9: on a cache miss getStockLevel computes sum(quantity) - sum(reserved) over
\* the active items of the product (of the warehouse when one is given), 0 when
\* there is none, a number >= 0; it stores that number under the cache key of
\* the call and returns it.
RefContribution(st, productId, warehouseId, w) ==
    LET item == st[<<productId, w>>]
    IN IF item.exists /\ item.isActive /\ (warehouseId = None \/ warehouseId = w)
       THEN item.quantity - item.reserved
       ELSE 0

RefAvailableStock(st, productId, warehouseId) ==
    RefContribution(st, productId, warehouseId, "W1")
      + RefContribution(st, productId, warehouseId, "W2")

C9_Step(t) ==
    LET key == CacheKey(th[t].productId, th[t].warehouseId)
        v == th[t].availableStock
    IN /\ (th[t].pc = "G_agg" /\ th'[t].pc = "G_set") =>
             /\ th'[t].availableStock =
                   RefAvailableStock(store, th[t].productId, th[t].warehouseId)
             /\ th'[t].availableStock >= 0
       /\ (th[t].pc = "G_set" /\ th'[t].pc # "G_set" /\ faults' = faults) =>
             /\ cache'[key] = Value(v)
             /\ th[t].op = "getStockLevel" => th'[t].ret = Value(v) /\ th'[t].err = None
             /\ th[t].op = "reserveStock" =>
                   (th'[t].err = "Insufficient stock" <=> v < th[t].quantity)

C9_MissComputesAndCaches == [][\A t \in Threads : C9_Step(t)]_vars

\* C9 witness: a getStockLevel over all warehouses has read the store, returned
\* the stock of two active items and left it in the cache.
C9_Witness ==
    \E t \in Callers :
        /\ Returned(t) /\ th[t].op = "getStockLevel" /\ th[t].warehouseId = None
        /\ th[t].storeReads = 1
        /\ \A k \in StockKeys : store[k].exists /\ store[k].isActive
        /\ th[t].ret = Value(Available(store[<<"P1", "W1">>]) + Available(store[<<"P1", "W2">>]))
        /\ th[t].ret[1] >= 2
        /\ cache[CacheKey("P1", None)] = th[t].ret

\* C10: when the cache holds a value for the key of the call, 0 included,
\* getStockLevel returns that value, reads no item and writes no cache entry.
C10_Step(t) ==
    LET key == CacheKey(th[t].productId, th[t].warehouseId)
    IN (/\ th[t].pc = "G_get" /\ th'[t].pc # "G_get"
        /\ cache[key] # Undefined /\ faults' = faults)
       => /\ th'[t].pc # "G_agg"
          /\ th'[t].storeReads = 0
          /\ cache' = cache /\ store' = store
          /\ th[t].op = "getStockLevel" => th'[t].ret = cache[key] /\ Done(t)'
          /\ th[t].op = "reserveStock" =>
                (th'[t].err = "Insufficient stock" <=> cache[key][1] < th[t].quantity)

C10_HitReturnsCached == [][\A t \in Threads : C10_Step(t)]_vars

\* C10 witness: two calls for the same key have returned 0, the first from the
\* store, the second from the cache without a read of the store.
C10_Witness ==
    \E t, u \in Callers :
        /\ t # u
        /\ Returned(t) /\ th[t].op = "getStockLevel" /\ th[t].storeReads = 1
        /\ Returned(u) /\ th[u].op = "getStockLevel" /\ th[u].storeReads = 0
        /\ th[t].warehouseId = th[u].warehouseId
        /\ th[t].ret = Value(0) /\ th[u].ret = Value(0)

\* C11: when the stock check of reserveStock finds less than the requested
\* quantity (from the cache or from the store), and only then, the call throws
\* the insufficient stock error; it has saved no reservation, changed no item,
\* written no stock update and armed no timer.
C11_Step(t) ==
    LET key == CacheKey(th[t].productId, th[t].warehouseId)
        fromCache == th[t].pc = "G_get" /\ CachedHit(cache[key])
        found == IF th[t].pc = "G_get" THEN cache[key][1] ELSE th[t].availableStock
    IN (/\ th[t].op = "reserveStock"
        /\ fromCache \/ th[t].pc = "G_set"
        /\ th'[t].pc # th[t].pc /\ faults' = faults)
       => /\ (th'[t].err = "Insufficient stock") <=> (found < th[t].quantity)
          /\ (th'[t].pc = "R_save") <=> ~(found < th[t].quantity)
          /\ found < th[t].quantity =>
                /\ Threw(t)' /\ th'[t].resId = 0 /\ th'[t].ret = Undefined
                /\ reservations' = reservations /\ store' = store
                /\ stockUpdates' = stockUpdates /\ timers' = timers

C11_PreCheckRefuses == [][\A t \in Threads : C11_Step(t)]_vars

\* C11 witness: a reserveStock asking for more than the item has available has
\* thrown the insufficient stock error; there is no reservation, no stock
\* update and no timer.
C11_Witness ==
    \E t \in Callers :
        /\ Threw(t) /\ th[t].op = "reserveStock" /\ th[t].err = "Insufficient stock"
        /\ th[t].quantity > Available(store[TxnKey(t)])
        /\ Available(store[TxnKey(t)]) > 0
        /\ reservations = <<>> /\ stockUpdates = <<>> /\ timers = {}

\* C12: a reserveStock that returns an id has saved the reservation of that id
\* as ACTIVE with the requested product, warehouse and quantity and with
\* expiresAt = the time of the save + ttlSeconds; its RESERVE, the one history
\* entry with the id as referenceId, has raised reserved by exactly the
\* quantity; and the return arms the one timer of that id.
ReferencedBy(item, referenceId) ==
    {i \in 1..Len(item.history) : item.history[i].referenceId = referenceId}

C12_Step(t) ==
    LET k == TxnKey(t)
        id == th[t].resId
        saved == Len(reservations) + 1
    IN th[t].op = "reserveStock" =>
         /\ (th[t].pc = "R_save" /\ th'[t].pc = "U_find") =>
               /\ reservations' =
                     Append(reservations,
                            [productId |-> th[t].productId, warehouseId |-> th[t].warehouseId,
                             quantity |-> th[t].quantity,
                             expiresAt |-> now + th[t].ttlSeconds, status |-> "ACTIVE"])
               /\ th'[t].resId = saved
               /\ th'[t].operation = "RESERVE"
               /\ th'[t].referenceId = RefId("reservation", saved)
               /\ timers' = timers
         /\ (th[t].pc = "U_commit" /\ th'[t].pc = "R_arm") =>
               /\ store'[k].reserved = store[k].reserved + th[t].quantity
               /\ store'[k].quantity = store[k].quantity
               /\ store'[k].history =
                     Append(store[k].history,
                            HistoryEntry("RESERVE", th[t].quantity, "Order reservation",
                                         RefId("reservation", id)))
         /\ (th[t].pc = "R_arm" /\ th'[t].pc # "R_arm") =>
               /\ Returned(t)' /\ th'[t].ret = Value(id)
               /\ id \in 1..Len(reservations)
               /\ reservations[id].status = "ACTIVE"
               /\ reservations[id].productId = th[t].productId
               /\ reservations[id].warehouseId = th[t].warehouseId
               /\ reservations[id].quantity = th[t].quantity
               /\ Cardinality(ReferencedBy(store[k], RefId("reservation", id))) = 1
               /\ HasEntry(store[k], "RESERVE", th[t].quantity, RefId("reservation", id))
               /\ {tm \in timers : tm.id = id} = {}
               /\ Cardinality({tm \in timers' : tm.id = id}) = 1
               /\ th[TimerThread(id)].pc = "idle"

C12_ReturnedIdIsHeld == [][\A t \in Threads : C12_Step(t)]_vars

\* C12 witness: a reserveStock of two units has returned its id; its
\* reservation is ACTIVE, its timer is armed and the item holds two reserved
\* units more than the one it held before.
C12_Witness ==
    \E t \in Callers :
        /\ Returned(t) /\ th[t].op = "reserveStock" /\ th[t].quantity = 2
        /\ th[t].ret = Value(th[t].resId)
        /\ reservations[th[t].resId].status = "ACTIVE"
        /\ reservations[th[t].resId].expiresAt = th[t].ttlSeconds
        /\ \E tm \in timers : tm.id = th[t].resId
        /\ store[TxnKey(t)].reserved >= 2

\* C13: a RESERVE of a (0 < a <= quantity - reserved) followed on the same item
\* by a RELEASE of a, with no operation between them, leaves quantity, reserved
\* and the available stock as they were before the RESERVE.
RECURSIVE RefReplay(_)
RefReplay(history) ==
    IF history = <<>> THEN [quantity |-> 0, reserved |-> 0]
    ELSE LET n == Len(history)
             before == RefReplay(SubSeq(history, 1, n - 1))
         IN [quantity |-> RefQuantity(before.quantity, history[n].operation,
                                     history[n].quantity),
             reserved |-> RefReserved(before.reserved, history[n].operation,
                                     history[n].quantity)]

EndsWithReserveRelease(history) ==
    LET n == Len(history)
    IN /\ n >= 2
       /\ history[n - 1].operation = "RESERVE"
       /\ history[n].operation = "RELEASE"
       /\ history[n - 1].quantity = history[n].quantity

C13_ReserveThenRelease ==
    \A k \in StockKeys :
        LET history == store[k].history
            original == RefReplay(SubSeq(history, 1, Len(history) - 2))
        IN EndsWithReserveRelease(history) =>
             /\ store[k].quantity = original.quantity
             /\ store[k].reserved = original.reserved
             /\ Available(store[k]) = original.quantity - original.reserved

\* C13 witness: on an item that held one reserved unit, a RESERVE and then a
\* RELEASE of one unit have been committed by two calls that returned.
C13_Witness ==
    \E t, u \in Callers :
        LET item == store[TxnKey(u)]
        IN /\ Returned(t) /\ th[t].op = "updateStock" /\ th[t].operation = "RESERVE"
           /\ Returned(u) /\ th[u].op = "updateStock" /\ th[u].operation = "RELEASE"
           /\ th[t].quantity = 1 /\ th[u].quantity = 1
           /\ EndsWithReserveRelease(item.history)
           /\ Len(item.history) = 4
           /\ item.reserved = 1 /\ item.quantity = 2

\* C14 (as claimed): when two updateStock calls on one item have both ended
\* without a failure of the store, the cache, the listeners or the queue, the
\* outcome of each call and the final quantity and reserved are those of the
\* two calls run one after the other, in one of the two orders.
UpdateCalls == {t \in Callers : th[t].op = "updateStock"}

OriginalCounters(item) ==
    RefReplay(SelectSeq(item.history, LAMBDA e : e.referenceId = RefId("order", 0)))

Sequential(item, first, second) ==
    LET one == ApplyOperation(OriginalCounters(item).quantity,
                              OriginalCounters(item).reserved,
                              th[first].operation, th[first].quantity)
        two == ApplyOperation(one.newQuantity, one.newReserved,
                              th[second].operation, th[second].quantity)
    IN /\ th[first].err = one.err
       /\ th[second].err = two.err
       /\ item.quantity = two.newQuantity
       /\ item.reserved = two.newReserved

C14_UpdatesSerialize ==
    \A t, u \in Callers :
        (/\ t # u /\ UpdateCalls = Callers
         /\ Done(t) /\ Done(u) /\ TxnKey(t) = TxnKey(u)
         /\ th[t].operation = "ADD" /\ th[u].operation \in Operations
         /\ faults = 0)
        => \/ Sequential(store[TxnKey(t)], t, u)
           \/ Sequential(store[TxnKey(t)], u, t)

\* C15 (as claimed): for every reservation id, the history of its item holds
\* at most one RELEASE with that id as referenceId.
Releases(item, referenceId) ==
    {i \in ReferencedBy(item, referenceId) : item.history[i].operation = "RELEASE"}

C15_OneReleasePerReservation ==
    \A id \in 1..Len(reservations) :
        Cardinality(Releases(store[<<reservations[id].productId,
                                     reservations[id].warehouseId>>],
                             RefId("reservation", id))) <= 1

\* C16: a reservation is saved ACTIVE and is never removed; its status changes
\* only from ACTIVE, and only to EXPIRED, FULFILLED or CANCELLED; a reservation
\* in one of these three does not change again; and an expiry run that finds
\* its reservation no longer ACTIVE ends without a change to the reservations,
\* the items or the stock updates.
TerminalStatuses == {"EXPIRED", "FULFILLED", "CANCELLED"}

C16_Step ==
    /\ Len(reservations') >= Len(reservations)
    /\ \A id \in 1..Len(reservations') :
          IF id > Len(reservations)
          THEN reservations'[id].status = "ACTIVE"
          ELSE /\ reservations'[id].status # reservations[id].status =>
                     /\ reservations[id].status = "ACTIVE"
                     /\ reservations'[id].status \in TerminalStatuses
               /\ reservations[id].status \in TerminalStatuses =>
                     reservations'[id] = reservations[id]
               /\ reservations[id].status # "ACTIVE" =>
                     reservations[id].status \in TerminalStatuses
    /\ \A t \in Threads :
          (/\ th[t].pc = "E_find" /\ th'[t].pc # "E_find"
           /\ ~StillActive(th[t].resId) /\ faults' = faults)
          => /\ Done(t)'
             /\ reservations' = reservations /\ store' = store
             /\ stockUpdates' = stockUpdates

Quiescent(t) == th[t].pc \in {"idle", "done"}

CachedWarehouse(key) == IF key[3] = "all" THEN None ELSE key[3]

C17_NoStaleEntryAfterCommit ==
    \A t \in Callers :
        (/\ Returned(t) /\ th[t].op = "updateStock"
         /\ \A u \in Threads : Quiescent(u)
         /\ faults = 0)
        => \A key \in ClearStockCacheKeys(th[t].productId, th[t].warehouseId) :
               \/ cache[key] = Undefined
               \/ cache[key] = Value(AvailableStock(store, key[2], CachedWarehouse(key)))

\* C18 (as claimed): when updateStock deletes a cache entry, its transaction
\* is committed: the item in the store is the item the call wrote.
C18_Step(t) ==
    (/\ th[t].pc = "U_clear" /\ th'[t].pc # "U_clear"
     /\ \E key \in CacheKeys : cache[key] # Undefined /\ cache'[key] = Undefined)
    => store[TxnKey(t)] = th[t].doc

C18_DeletionFollowsCommit == [][\A t \in Threads : C18_Step(t)]_vars

\* C19 (as claimed): when no call is in flight, the low stock events are those
\* of the committed stock updates whose quantity - reserved is at or below the
\* threshold of the item, one event for each, with that available stock and
\* that threshold.
IsLowUpdate(update) ==
    IsLowStock(update.newQuantity - update.newReserved,
               store[<<update.productId, update.warehouseId>>].lowStockThreshold)

EventOf(update) ==
    [productId |-> update.productId, warehouseId |-> update.warehouseId,
     availableStock |-> update.newQuantity - update.newReserved,
     threshold |-> store[<<update.productId, update.warehouseId>>].lowStockThreshold]

RECURSIVE EventsOf(_)
EventsOf(updates) ==
    IF updates = <<>> THEN <<>>
    ELSE (IF IsLowUpdate(Head(updates)) THEN <<EventOf(Head(updates))>> ELSE <<>>)
           \o EventsOf(Tail(updates))

C19_LowStockEventsOfCommits ==
    (\A t \in Threads : Quiescent(t)) => lowStockEvents = EventsOf(stockUpdates)

\* C20: updateStock applies an ADD whatever its referenceId: when the calls
\* with one referenceId that returned are all ADDs of one amount, quantity has
\* grown by that amount for each of them and the history holds one ADD entry
\* with that referenceId for each of them.
Replays(referenceId) ==
    {t \in Callers : Returned(t) /\ th[t].op = "updateStock"
                       /\ th[t].referenceId = referenceId}

C20_ReplayedAddApplied ==
    \A a \in Amounts :
        LET ref == RefId("order", 1)
            k == <<"P1", "W1">>
            added == {i \in ReferencedBy(store[k], ref) :
                         /\ store[k].history[i].operation = "ADD"
                         /\ store[k].history[i].quantity = a}
        IN (/\ Replays(ref) # {}
            /\ \A t \in Callers :
                  (th[t].op = "updateStock" /\ Quiescent(t)) \/ th[t].op = "getStockLevel"
                    \/ th[t].pc = "idle"
            /\ \A t \in Replays(ref) : th[t].operation = "ADD" /\ th[t].quantity = a)
           => /\ Cardinality(added) = Cardinality(Replays(ref))
              /\ ReferencedBy(store[k], ref) = added
              /\ store[k].quantity =
                    OriginalCounters(store[k]).quantity + Cardinality(Replays(ref)) * a

\* C20 witness: two ADDs of one unit with the same referenceId have returned;
\* the history holds two entries with it and quantity is two above what it was.
C20_Witness ==
    LET item == store[<<"P1", "W1">>]
    IN /\ Replays(RefId("order", 1)) = Callers
       /\ \A t \in Callers : th[t].operation = "ADD" /\ th[t].quantity = 1
       /\ Cardinality(ReferencedBy(item, RefId("order", 1))) = 2
       /\ item.quantity = OriginalCounters(item).quantity + 2

\* C21: the history of an item only grows, by one entry at its end for each
\* updateStock that commits: the operation, quantity, reason and referenceId
\* of the call; a call that fails adds nothing; and the history replayed from
\* quantity 0 and reserved 0 gives the quantity and reserved of the item.
InStep(item) ==
    /\ RefReplay(item.history).quantity = item.quantity
    /\ RefReplay(item.history).reserved = item.reserved

C21_Step(k) ==
    /\ calls = 0 => InStep(store[k])
    /\ store'[k] # store[k] => InStep(store'[k])
    /\ \/ store'[k].history = store[k].history
       \/ \E t \in Threads :
             /\ th[t].pc = "U_commit" /\ TxnKey(t) = k
             /\ th'[t].pc \in {"done", "R_arm"} /\ th'[t].err = None
             /\ store'[k].history =
                   Append(store[k].history,
                          HistoryEntry(th[t].operation, th[t].quantity,
                                       th[t].reason, th[t].referenceId))
    /\ \A t \in Threads :
          (/\ TxnKey(t) = k /\ th[t].op = "updateStock"
           /\ ~Done(t) /\ Threw(t)')
          => store'[k] = store[k]

C21_HistoryInStep == [][\A k \in StockKeys : C21_Step(k)]_vars

\* C21 witness: on an item with two history entries a SUBTRACT has committed
\* and another call has failed after it wrote in its transaction; the history
\* holds the two entries and that of the SUBTRACT, and replays to the counters.
C21_Witness ==
    \E t, u \in Callers :
        LET item == store[TxnKey(t)]
        IN /\ Returned(t) /\ th[t].op = "updateStock" /\ th[t].operation = "SUBTRACT"
           /\ Threw(u) /\ th[u].op = "updateStock" /\ th[u].err = "QueueError"
           /\ TxnKey(u) = TxnKey(t)
           /\ Len(item.history) = 3
           /\ item.history[3] = HistoryEntry("SUBTRACT", th[t].quantity, "api",
                                             RefId("order", 1))
           /\ InStep(item) /\ item.reserved = 1

\* C22 (as claimed, in the form a finite run refutes): a reservation that is
\* ACTIVE has its expiry ahead: the call that saved it is still running, or
\* its timer is armed, or its expiry run is under way.
Saving(id) ==
    \E t \in Callers : th[t].op = "reserveStock" /\ th[t].resId = id /\ ~Done(t)

C22_ActiveHasExpiryAhead ==
    \A id \in 1..Len(reservations) :
        (reservations[id].status = "ACTIVE" /\ faults = 0)
        => Saving(id) \/ ExpiryPending(id)

\* C23: a reservation becomes EXPIRED, and the RELEASE of its expiry run is
\* committed, only at or after its expiresAt; its timer is set after its
\* RESERVE is committed, for a time not before expiresAt; and the timer of a
\* reservation runs checkReservationExpiry once.
C23_Step(id) ==
    LET reservation == reservations[id]
        k == <<reservation.productId, reservation.warehouseId>>
        run == TimerThread(id)
        ref == RefId("reservation", id)
    IN /\ (reservations'[id].status = "EXPIRED" /\ reservation.status # "EXPIRED") =>
             now >= reservation.expiresAt
       /\ (th[run].pc = "U_commit" /\ store'[k] # store[k] /\ th'[run].pc = "done") =>
             /\ now >= reservation.expiresAt
             /\ reservation.status = "EXPIRED"
       /\ \A tm \in timers' \ timers :
             tm.id = id =>
               /\ tm.due >= reservation.expiresAt
               /\ HasEntry(store[k], "RESERVE", reservation.quantity, ref)
               /\ th[run].pc = "idle"
               /\ \A other \in timers : other.id # id
       /\ (th[run].pc = "idle" /\ th'[run].pc # "idle") =>
             /\ now >= reservation.expiresAt
             /\ \A tm \in timers' : tm.id # id
       /\ th[run].pc # "idle" => \A tm \in timers' : tm.id # id

C23_NoExpiryBeforeExpiresAt == [][\A id \in 1..Len(reservations) : C23_Step(id)]_vars

\* C23 witness: a reservation saved at time 0 with a ttl of one second is
\* EXPIRED at time 1, the RELEASE of its expiry run is committed and no timer
\* is left.
C23_Witness ==
    \E id \in 1..Len(reservations) :
        /\ reservations[id].status = "EXPIRED" /\ reservations[id].expiresAt = 1
        /\ now = 1
        /\ Returned(TimerThread(id))
        /\ Releases(store[<<reservations[id].productId, reservations[id].warehouseId>>],
                    RefId("reservation", id)) # {}
        /\ timers = {}

====
